---- MODULE Spec2Model ----
(***************************************************************************)
(* archi-scraper: the extraction-and-synthesis engine.                     *)
(*                                                                         *)
(* Two front ends share it: the GUI (scripts/ArchiScraperApp.py), whose    *)
(* batch of ViewRecords is mutated by button handlers and exported by      *)
(* ArchiMateXMLGenerator.create_merged_xml, and the command line           *)
(* (scripts/html_to_archimate_xml.py), whose main() accumulates the views  *)
(* named on the command line and calls its own create_merged_xml.          *)
(*                                                                         *)
(* Python values are modelled as follows.  None is the empty sequence and  *)
(* an optional value is a sequence of length 0 or 1.  A dict, which keeps  *)
(* insertion order, is a sequence of records with pairwise distinct keys;  *)
(* the coordinates dict, whose order is never observed, is a function.  A  *)
(* set, whose iteration order depends on the process's string hash seed,   *)
(* is a TLA+ set iterated in the order the seed gives.                     *)
(***************************************************************************)
EXTENDS Integers, Sequences, FiniteSets, TLC

(***************************************************************************)
(* Bounds of the model.                                                    *)
(***************************************************************************)
\* Longest batch / longest list of view files on the command line.
MaxViews == 2
\* Longest content-edge list of the registry.
MaxEdges == 3
\* Deepest call stack add_folder_items may build before the interpreter
\* raises RecursionError (CPython's limit, scaled down).
RecursionLimit == 5

(***************************************************************************)
(* Identifiers and tags.                                                   *)
(***************************************************************************)
ElemIds == {"e1", "e2"}
RelIds == {"r1"}
ViewIds == {"v1", "v2"}
FolderIds == {"f1", "f2"}

\* The pseudo-types every front end excludes from elements and nodes.
ExcludedTypes == {"DiagramModelNote", "DiagramModelReference", "Unknown"}

None == <<>>
Some(x) == <<x>>

Range(s) == {s[i] : i \in 1..Len(s)}

\* All sequences over S of length lo..hi.
SeqsUpTo(S, lo, hi) == UNION {[1..n -> S] : n \in lo..hi}

\* key in dict, for a dict modelled as a sequence of records with field id
HasKey(dict, k) == \E i \in 1..Len(dict) : dict[i].id = k

\* dict.keys()
Keys(dict) == {dict[i].id : i \in 1..Len(dict)}

\* dict[k], for a key that is present
Lookup(dict, k) == dict[CHOOSE i \in 1..Len(dict) : dict[i].id = k]

VARIABLES
    loaded,            \* model_data.loaded
    folders,           \* model_data.folders: folder id -> type tag
    folder_contents,   \* model_data.folder_contents: list of content-edges
    views,             \* model_data.views: the registry's view ids, in order
    hash_seed,         \* the GUI process's string hash seed (set iteration order)
    uuid_hex,          \* what uuid4().hex[:8] gives, call after call, to a handler
    view_files,        \* the view documents the environment can supply
    batch_views,       \* ArchiScraperApp.batch_views
    batch_list,        \* ArchiScraperApp.batch_list (UserRole data of each item)
    signal,            \* what the last GUI handler told the user
    doc,               \* the document the GUI generated last, if any
    dl,                \* the download-all run in progress, if any
    cli                \* the last run of the command line, if any

vars == <<loaded, folders, folder_contents, views, hash_seed, uuid_hex, view_files,
          batch_views, batch_list, signal, doc, dl, cli>>

registry == <<loaded, folders, folder_contents, views>>

(***************************************************************************)
(* Synthesized identifiers.                                                *)
(***************************************************************************)
\* The values uuid4().hex[:8] can take (32 bits in the code).
HexValues == {"a1", "b2", "c3", "d4", "e5", "f6", "a7", "b8",
              "c9", "d0", "e1f", "f2a", "a3b", "b4c", "c5d", "d6e"}

\* gen_id(prefix) when uuid4().hex[:8] is hex: f"{prefix}-{hex}"
GenId(prefix, hex) ==
    [model |-> [a1 |-> "model-a1", b2 |-> "model-b2", c3 |-> "model-c3", d4 |-> "model-d4",
                e5 |-> "model-e5", f6 |-> "model-f6", a7 |-> "model-a7", b8 |-> "model-b8",
                c9 |-> "model-c9", d0 |-> "model-d0", e1f |-> "model-e1f", f2a |-> "model-f2a",
                a3b |-> "model-a3b", b4c |-> "model-b4c", c5d |-> "model-c5d", d6e |-> "model-d6e"],
     view  |-> [a1 |-> "view-a1", b2 |-> "view-b2", c3 |-> "view-c3", d4 |-> "view-d4",
                e5 |-> "view-e5", f6 |-> "view-f6", a7 |-> "view-a7", b8 |-> "view-b8",
                c9 |-> "view-c9", d0 |-> "view-d0", e1f |-> "view-e1f", f2a |-> "view-f2a",
                a3b |-> "view-a3b", b4c |-> "view-b4c", c5d |-> "view-c5d", d6e |-> "view-d6e"],
     node  |-> [a1 |-> "node-a1", b2 |-> "node-b2", c3 |-> "node-c3", d4 |-> "node-d4",
                e5 |-> "node-e5", f6 |-> "node-f6", a7 |-> "node-a7", b8 |-> "node-b8",
                c9 |-> "node-c9", d0 |-> "node-d0", e1f |-> "node-e1f", f2a |-> "node-f2a",
                a3b |-> "node-a3b", b4c |-> "node-b4c", c5d |-> "node-c5d", d6e |-> "node-d6e"]][prefix][hex]

\* The draws of a typical run: no value comes twice.
DistinctDraws == <<"a1", "b2", "c3", "d4", "e5", "f6", "a7", "b8",
                   "c9", "d0", "e1f", "f2a", "a3b", "b4c", "c5d", "d6e">>

\* The value the k-th call of gen_id in a handler run works with.
Draw(k) == uuid_hex[k]

\* The draws SpecIds ranges over: two values, so that a value can come twice,
\* and as many draws as the longest run of a handler of the GUI makes calls
\* (the model identifier and a node per view, or a parse, the model
\* identifier and a node).
IdHexValues == {"a1", "b2"}
IdStreams == [1..(MaxViews + 1) -> IdHexValues]

\* What the generator gives to the handler run that follows one that called
\* gen_id: any stream where the draws are varied, the typical one elsewhere.
FollowingDraws == IF uuid_hex \in IdStreams THEN IdStreams ELSE {uuid_hex}

(***************************************************************************)
(* Merge/dedup engine.                                                     *)
(***************************************************************************)

\* The GUI's filter on what one view contributes to all_elements.
GuiContributes(view_data, elem) ==
    /\ elem.id \in DOMAIN view_data.coordinates
    /\ elem.type \notin ExcludedTypes

\* The inner loop over one view's elements: first occurrence wins.
RECURSIVE GuiAddElements(_, _, _)
GuiAddElements(acc, view_data, i) ==
    IF i > Len(view_data.elements) THEN acc
    ELSE LET elem == view_data.elements[i]
         IN  GuiAddElements(
                 IF GuiContributes(view_data, elem) /\ ~HasKey(acc, elem.id)
                 THEN Append(acc, elem) ELSE acc,
                 view_data, i + 1)

\* A store in which the last row of an identifier wins.
AddRelLastWins(acc, rel) ==
    IF HasKey(acc, rel.id)
    THEN [j \in 1..Len(acc) |-> IF acc[j].id = rel.id THEN rel ELSE acc[j]]
    ELSE Append(acc, rel)

\* Relationships of one view: first occurrence wins.
AddRel(acc, rel) ==
    IF ~HasKey(acc, rel.id) THEN Append(acc, rel) ELSE acc

RECURSIVE AddRelationships(_, _, _)
AddRelationships(acc, rels, i) ==
    IF i > Len(rels) THEN acc
    ELSE AddRelationships(AddRel(acc, rels[i]), rels, i + 1)

\* all_elements after the loop over views_data_list[1..n].
RECURSIVE GuiMergeElements(_, _)
GuiMergeElements(views_data_list, n) ==
    IF n = 0 THEN <<>>
    ELSE GuiAddElements(GuiMergeElements(views_data_list, n - 1),
                        views_data_list[n], 1)

\* all_relationships after the loop over views_data_list[1..n].
RECURSIVE MergeRelationships(_, _)
MergeRelationships(views_data_list, n) ==
    IF n = 0 THEN <<>>
    ELSE AddRelationships(MergeRelationships(views_data_list, n - 1),
                          views_data_list[n].relationships, 1)

(***************************************************************************)
(* Diagram nodes and their z-order.                                        *)
(***************************************************************************)

Area(coords) == coords.w * coords.h

\* A collection that takes every element with a region, whatever its type.
RECURSIVE NodesOfEveryRegion(_, _)
NodesOfEveryRegion(view_data, n) ==
    IF n = 0 THEN <<>>
    ELSE LET elem == view_data.elements[n]
             rest == NodesOfEveryRegion(view_data, n - 1)
         IN  IF elem.id \notin DOMAIN view_data.coordinates THEN rest
             ELSE Append(rest, [elem_id |-> elem.id,
                                coords  |-> view_data.coordinates[elem.id],
                                area    |-> Area(view_data.coordinates[elem.id])])

\* The nodes collected for one view, in the order of its elements table.
RECURSIVE NodesToAdd(_, _)
NodesToAdd(view_data, n) ==
    IF n = 0 THEN <<>>
    ELSE LET elem == view_data.elements[n]
             rest == NodesToAdd(view_data, n - 1)
         IN  IF elem.id \notin DOMAIN view_data.coordinates THEN rest
             ELSE IF elem.type \in ExcludedTypes THEN rest
             ELSE Append(rest, [elem_id |-> elem.id,
                                coords  |-> view_data.coordinates[elem.id],
                                area    |-> Area(view_data.coordinates[elem.id])])

\* The insertion step of an ascending sort.
InsertNodeAscending(sorted, node) ==
    LET k == Cardinality({j \in 1..Len(sorted) : sorted[j].area <= node.area})
    IN  SubSeq(sorted, 1, k) \o <<node>> \o SubSeq(sorted, k + 1, Len(sorted))

\* list.sort(key=area, reverse=True): stable, largest area first.  The node
\* goes after every node whose area is at least its own.
InsertNode(sorted, node) ==
    LET k == Cardinality({j \in 1..Len(sorted) : sorted[j].area >= node.area})
    IN  SubSeq(sorted, 1, k) \o <<node>> \o SubSeq(sorted, k + 1, Len(sorted))

RECURSIVE SortNodes(_, _)
SortNodes(nodes, n) ==
    IF n = 0 THEN <<>> ELSE InsertNode(SortNodes(nodes, n - 1), nodes[n])

\* One <view> of the views section.  Every node is made a sub-element of
\* the view itself (parent is the view's identifier), and no connection
\* element is made.
Diagram(view_data) ==
    LET nodes_to_add == NodesToAdd(view_data, Len(view_data.elements))
        sorted == SortNodes(nodes_to_add, Len(nodes_to_add))
    IN  [identifier  |-> view_data.view_id,
         name        |-> view_data.view_name,
         nodes       |-> [j \in 1..Len(sorted) |->
                            [elementRef |-> sorted[j].elem_id,
                             parent |-> view_data.view_id,
                             x |-> sorted[j].coords.x, y |-> sorted[j].coords.y,
                             w |-> sorted[j].coords.w, h |-> sorted[j].coords.h]],
         connections |-> <<>>]

\* The views section written from the last ViewRecord to the first.
DiagramsNewestFirst(views_data_list) ==
    [j \in 1..Len(views_data_list) |->
        Diagram(views_data_list[Len(views_data_list) + 1 - j])]

\* The views section: one <view> per ViewRecord, in list order.
Diagrams(views_data_list) ==
    [j \in 1..Len(views_data_list) |-> Diagram(views_data_list[j])]

(***************************************************************************)
(* Reference resolver and organizations section (_add_organizations;       *)
(* the same code is inlined in the command line's create_merged_xml).      *)
(***************************************************************************)

\* set iteration: the members of S in the order the process's hash seed gives
\* (a seed is an ordering of every identifier that can enter such a set).
SetOrder(seed, S) == SelectSeq(seed, LAMBDA f : f \in S)

HashSeeds ==
    {s \in [1..Cardinality(FolderIds) -> FolderIds] :
        \A i, j \in DOMAIN s : i # j => s[i] # s[j]}

\* folder_children.get(folder_id, []): (content_id, content_type) in list order
FolderChildren(folder_id) ==
    SelectSeq(folder_contents, LAMBDA fc : fc.folder_id = folder_id)

\* A test that goes down Folder-typed edges only.
OnlyFolderTyped(fc) == fc.content_type = "Folder"

\* The test that sends folder_has_valid_content down an edge.
IsSubFolderEdge(fc) ==
    fc.content_type = "Folder" \/ fc.content_id \in DOMAIN folders

\* A test that looks at the folder's own edges and goes down none.
DirectContentOnly(folder_id, visited, valid_ids) ==
    [res |-> \E k \in 1..Len(folder_contents) :
                /\ folder_contents[k].folder_id = folder_id
                /\ folder_contents[k].content_id \in valid_ids,
     visited |-> Append(visited, folder_id)]

\* A test that takes any content for valid content.
FolderHasAnyContent(folder_id, visited, valid_ids) ==
    [res |-> FolderChildren(folder_id) # <<>>, visited |-> Append(visited, folder_id)]

\* folder_has_valid_content(folder_id, visited): the result and the visited
\* set as the call leaves it (the set is one object shared down the
\* recursion).  The set is kept as the sequence of its additions.
RECURSIVE FolderHasValidContent(_, _, _)
RECURSIVE ScanChildren(_, _, _, _)
ScanChildren(children, i, visited, valid_ids) ==
    IF i > Len(children) THEN [res |-> FALSE, visited |-> visited]
    ELSE IF children[i].content_id \in valid_ids
         THEN [res |-> TRUE, visited |-> visited]
    ELSE IF IsSubFolderEdge(children[i])
         THEN LET r == FolderHasValidContent(children[i].content_id, visited, valid_ids)
              IN  IF r.res THEN r
                  ELSE ScanChildren(children, i + 1, r.visited, valid_ids)
    ELSE ScanChildren(children, i + 1, visited, valid_ids)

FolderHasValidContent(folder_id, visited, valid_ids) ==
    IF folder_id \in Range(visited) THEN [res |-> FALSE, visited |-> visited]
    ELSE ScanChildren(FolderChildren(folder_id), 1, Append(visited, folder_id), valid_ids)

\* included_folders after the scan of every registry folder, each top-level
\* call starting from a fresh visited set.
ScannedFolders(valid_ids) ==
    {f \in DOMAIN folders : FolderHasValidContent(f, <<>>, valid_ids).res}

\* get_parent_folder: the source of the first Folder-typed edge to folder_id.
GetParentFolder(folder_id) ==
    LET hits == SelectSeq(folder_contents,
                    LAMBDA fc : fc.content_id = folder_id /\ fc.content_type = "Folder")
    IN  IF hits = <<>> THEN None ELSE Some(hits[1].folder_id)

\* The ancestor loop: folders_to_check is a stack, popped from its end.
RECURSIVE AncestorClosure(_, _)
AncestorClosure(included_folders, folders_to_check) ==
    IF folders_to_check = <<>> THEN included_folders
    ELSE LET n == Len(folders_to_check)
             rest == SubSeq(folders_to_check, 1, n - 1)
             parent == GetParentFolder(folders_to_check[n])
         IN  IF parent # None /\ parent[1] \notin included_folders
             THEN AncestorClosure(included_folders \cup {parent[1]},
                                  Append(rest, parent[1]))
             ELSE AncestorClosure(included_folders, rest)

IncludedFolders(seed, valid_ids) ==
    LET scanned == ScannedFolders(valid_ids)
    IN  AncestorClosure(scanned, SetOrder(seed, scanned))

\* A root test that asks for a parent of type ArchimateModel.
RootNeedsModelParent(folder_id) ==
    /\ folder_id \in DOMAIN folders
    /\ folders[folder_id] = "Folder"
    /\ LET parent == GetParentFolder(folder_id)
       IN  /\ parent # None
           /\ parent[1] \in DOMAIN folders
           /\ folders[parent[1]] = "ArchimateModel"

\* Whether an included folder is taken as a top-level root.
IsRootFolder(folder_id) ==
    /\ folder_id \in DOMAIN folders
    /\ folders[folder_id] = "Folder"
    /\ LET parent == GetParentFolder(folder_id)
       IN  \/ parent = None
           \/ /\ parent[1] \in DOMAIN folders
              /\ folders[parent[1]] = "ArchimateModel"

\* root_folder_ids: the roots, in the iteration order of the included set.
RootFolderIds(seed, included_folders) ==
    SelectSeq(SetOrder(seed, included_folders), IsRootFolder)

\* Items of the organizations tree, flattened in document order: a folder
\* container is an "open" item, its content and a "close"; a leaf is a "ref".
OpenItem(folder_id) == [kind |-> "open", id |-> folder_id]
CloseItem(folder_id) == [kind |-> "close", id |-> folder_id]
RefItem(content_id) == [kind |-> "ref", id |-> content_id]

\* An emission that does not filter the leaves.
EmitsAnyLeaf(fc, valid_ids) == TRUE

\* Whether add_folder_items emits a leaf item for a content-edge that is not
\* taken as a sub-folder.
EmitsLeaf(fc, valid_ids) == fc.content_id \in valid_ids

\* add_folder_items(parent_xml, folder_id) at call depth `depth`: the items it
\* appends, or err when the call stack passes the interpreter's limit
\* (RecursionError, which unwinds through every caller).
RECURSIVE AddFolderItems(_, _, _, _)
RECURSIVE AddChildItems(_, _, _, _, _, _)
AddChildItems(children, i, depth, valid_ids, included_folders, acc) ==
    IF i > Len(children) THEN [items |-> acc, err |-> FALSE]
    ELSE IF children[i].content_type = "Folder"
            /\ children[i].content_id \in included_folders
         THEN LET r == AddFolderItems(children[i].content_id, depth + 1,
                                      valid_ids, included_folders)
              IN  IF r.err THEN [items |-> acc \o r.items, err |-> TRUE]
                  ELSE AddChildItems(children, i + 1, depth, valid_ids,
                                     included_folders, acc \o r.items)
    ELSE IF EmitsLeaf(children[i], valid_ids)
         THEN AddChildItems(children, i + 1, depth, valid_ids, included_folders,
                            Append(acc, RefItem(children[i].content_id)))
    ELSE AddChildItems(children, i + 1, depth, valid_ids, included_folders, acc)

AddFolderItems(folder_id, depth, valid_ids, included_folders) ==
    IF depth > RecursionLimit THEN [items |-> <<>>, err |-> TRUE]
    ELSE IF folder_id \notin DOMAIN folders \/ folder_id \notin included_folders
         THEN [items |-> <<>>, err |-> FALSE]
    ELSE LET r == AddChildItems(FolderChildren(folder_id), 1, depth, valid_ids,
                                included_folders, <<OpenItem(folder_id)>>)
         IN  IF r.err THEN r
             ELSE [items |-> Append(r.items, CloseItem(folder_id)), err |-> FALSE]

\* The loop over root_folder_ids.
RECURSIVE AddRoots(_, _, _, _, _)
AddRoots(roots, i, valid_ids, included_folders, acc) ==
    IF i > Len(roots) THEN [items |-> acc, err |-> FALSE]
    ELSE LET r == AddFolderItems(roots[i], 1, valid_ids, included_folders)
         IN  IF r.err THEN [items |-> acc \o r.items, err |-> TRUE]
             ELSE AddRoots(roots, i + 1, valid_ids, included_folders, acc \o r.items)

\* The whole pass: the included set, the roots and the emitted items.
AddOrganizations(seed, valid_ids) ==
    LET included_folders == IncludedFolders(seed, valid_ids)
        root_folder_ids == RootFolderIds(seed, included_folders)
        r == AddRoots(root_folder_ids, 1, valid_ids, included_folders, <<>>)
    IN  [included |-> included_folders, roots |-> root_folder_ids,
         items |-> r.items, err |-> r.err]

\* A guard that does not look at the content edges.
HasFolders == loaded /\ DOMAIN folders # {}

\* The guard on the organizations section.
HasFolderData == loaded /\ DOMAIN folders # {} /\ folder_contents # <<>>

(***************************************************************************)
(* View extractor, as far as the batch sees it.  A view document is given  *)
(* by the areas of its image map, as the attributes of each <area> read,   *)
(* and by what the passes over its two tables find: view_id is the id the  *)
(* map name carries (None without one).                                    *)
(***************************************************************************)

\* A parse of the numbers that lets every token pass.
NeverRaises(coords) == FALSE

\* int(x.strip()) of every token of coords_str.split(','): ValueError if one
\* of them is not an integer literal, whatever its position.
RaisesValueError(coords) == \E k \in 1..Len(coords) : ~coords[k].ok

\* A box that keeps the second corner where the width and height belong.
CornerBox(coords) ==
    [x |-> coords[1].val, y |-> coords[2].val,
     w |-> coords[3].val, h |-> coords[4].val]

\* The bounding box of a rect region x1,y1,x2,y2 (tokens past the fourth are
\* parsed and dropped).
BoundingBox(coords) ==
    [x |-> coords[1].val, y |-> coords[2].val,
     w |-> coords[3].val - coords[1].val, h |-> coords[4].val - coords[2].val]

\* Whether extract_coordinates stores an entry for this <area>.
IsExtracted(area) ==
    /\ area.shape = "rect"
    /\ area.target # "view"
    /\ area.href # None
    /\ area.coords # <<>>
    /\ ~RaisesValueError(area.coords)
    /\ Len(area.coords) >= 4

\* extract_coordinates after the first n areas of the map: a dict keyed by
\* element id, so a later region of an id replaces an earlier one.
RECURSIVE ExtractCoordinates(_, _)
ExtractCoordinates(areas, n) ==
    IF n = 0 THEN <<>>
    ELSE LET coordinates == ExtractCoordinates(areas, n - 1)
             area == areas[n]
         IN  IF ~IsExtracted(area) THEN coordinates
             ELSE [e \in DOMAIN coordinates \cup {area.href[1]} |->
                     IF e = area.href[1] THEN BoundingBox(area.coords)
                     ELSE coordinates[e]]

\* A type tag is the sequence of the words it is spelled with, so that
\* "AggregationRelationship" is <<"Aggregation", "Relationship">> and its
\* last twelve characters are its last word.
KeepsSuffix(rel_type) == rel_type

\* fix_relationship_type
FixRelationshipType(rel_type) ==
    IF rel_type # <<>> /\ rel_type[Len(rel_type)] = "Relationship"
    THEN SubSeq(rel_type, 1, Len(rel_type) - 1)
    ELSE rel_type

\* The loop over the classes of the type link: the first class that starts
\* with i18n-elementtype- gives the type, 'Association' if there is none.
RECURSIVE RelTypeOf(_, _)
RelTypeOf(classes, k) ==
    IF k > Len(classes) THEN <<"Association">>
    ELSE IF classes[k].prefixed THEN FixRelationshipType(classes[k].tag)
    ELSE RelTypeOf(classes, k + 1)

\* Whether a row of the relationships table gives a relationship: four
\* cells, a link in each of them, and an identifier in the href of the
\* relationship, the source and the target.
IsRelationshipRow(row) ==
    /\ row.cells >= 4
    /\ row.rel_link # None /\ row.type_link # None
    /\ row.source_link # None /\ row.target_link # None
    /\ row.rel_link[1].id # None
    /\ row.source_link[1] # None /\ row.target_link[1] # None

\* extract_relationships after the first n rows of the table.
RECURSIVE ExtractRelationships(_, _)
ExtractRelationships(rows, n) ==
    IF n = 0 THEN <<>>
    ELSE LET relationships == ExtractRelationships(rows, n - 1)
             row == rows[n]
         IN  IF ~IsRelationshipRow(row) THEN relationships
             ELSE Append(relationships,
                         [id     |-> row.rel_link[1].id[1],
                          type   |-> RelTypeOf(row.type_link[1], 1),
                          source |-> row.source_link[1][1],
                          target |-> row.target_link[1][1],
                          name   |-> row.rel_link[1].name])

\* ViewParser.parse / extract_view_data: None without coordinates, else the
\* ViewRecord; fresh is the identifier gen_id("view") would return.
Parse(view_doc, fresh) ==
    LET coordinates == ExtractCoordinates(view_doc.areas, Len(view_doc.areas))
    IN  IF DOMAIN coordinates = {} THEN None
        ELSE Some([view_id       |-> IF view_doc.view_id # None
                                 THEN view_doc.view_id[1] ELSE fresh,
               view_name     |-> view_doc.view_name,
               elements      |-> view_doc.elements,
               relationships |-> ExtractRelationships(view_doc.relationships,
                                                      Len(view_doc.relationships)),
               coordinates   |-> coordinates])

\* gen_id("view") of a parse that is the first to call gen_id in its run.
GenViewIds == {GenId("view", Draw(1))}

(***************************************************************************)
(* Document synthesizer, GUI (ArchiMateXMLGenerator).                      *)
(***************************************************************************)

\* valid_ids of _add_organizations
GuiValidIds(all_elements, all_relationships, views_data) ==
    Keys(all_elements) \cup Keys(all_relationships)
        \cup {views_data[j].view_id : j \in 1..Len(views_data)}

\* The number of nodes of the diagrams of views_data_list[1..n].
RECURSIVE NodesBefore(_, _)
NodesBefore(views_data_list, n) ==
    IF n = 0 THEN 0
    ELSE NodesBefore(views_data_list, n - 1)
            + Len(NodesToAdd(views_data_list[n], Len(views_data_list[n].elements)))

\* gen_id("node") of every node, diagram by diagram in emission order; the
\* generator's call number `first` made the model identifier.
NodeIds(views_data_list, first) ==
    [v \in 1..Len(views_data_list) |->
        [k \in 1..Len(NodesToAdd(views_data_list[v], Len(views_data_list[v].elements))) |->
            GenId("node", Draw(first + NodesBefore(views_data_list, v - 1) + k))]]

\* The document, given the merged collections.  err: the call was left by
\* RecursionError and no document exists.  first is the number of the
\* generator's first call of gen_id in the handler run.
GuiDocument(kind, title, all_elements, all_relationships, views_data_list, seed, first) ==
    LET valid_ids == GuiValidIds(all_elements, all_relationships, views_data_list)
        orgs == IF HasFolderData THEN AddOrganizations(seed, valid_ids)
                ELSE [included |-> {}, roots |-> <<>>, items |-> <<>>, err |-> FALSE]
    IN  [err           |-> orgs.err,
         kind          |-> kind,
         title         |-> title,
         model_id      |-> GenId("model", Draw(first)),
         node_ids      |-> NodeIds(views_data_list, first),
         elements      |-> all_elements,
         relationships |-> all_relationships,
         has_orgs      |-> HasFolderData,
         included      |-> orgs.included,
         roots         |-> orgs.roots,
         organizations |-> orgs.items,
         diagrams      |-> Diagrams(views_data_list)]

\* ArchiMateXMLGenerator.create_merged_xml
GuiCreateMergedXml(views_data_list, seed) ==
    GuiDocument("merged", "Master Architecture Model",
                GuiMergeElements(views_data_list, Len(views_data_list)),
                MergeRelationships(views_data_list, Len(views_data_list)),
                views_data_list, seed, 1)

\* all_relationships of create_single_view_xml: a plain dict store, so a
\* later row replaces the fields of an earlier one in place.
RECURSIVE SingleRelationships(_, _)
SingleRelationships(rels, n) ==
    IF n = 0 THEN <<>>
    ELSE LET acc == SingleRelationships(rels, n - 1)
             rel == rels[n]
         IN  IF HasKey(acc, rel.id)
             THEN [j \in 1..Len(acc) |-> IF acc[j].id = rel.id THEN rel ELSE acc[j]]
             ELSE Append(acc, rel)

\* ArchiMateXMLGenerator.create_single_view_xml
GuiCreateSingleViewXml(view_data, seed, first) ==
    GuiDocument("single", view_data.view_name,
                GuiAddElements(<<>>, view_data, 1),
                SingleRelationships(view_data.relationships,
                                    Len(view_data.relationships)),
                <<view_data>>, seed, first)

(***************************************************************************)
(* Command line (html_to_archimate_xml.py).                                *)
(***************************************************************************)

\* main's accumulation of one view's elements: first occurrence wins.
RECURSIVE CliAddElements(_, _, _)
CliAddElements(acc, elements, i) ==
    IF i > Len(elements) THEN acc
    ELSE CliAddElements(IF ~HasKey(acc, elements[i].id)
                        THEN Append(acc, elements[i]) ELSE acc,
                        elements, i + 1)

\* The calls of gen_id made by extract_view_data over files[1..n]: one for
\* every file whose map name gives no identifier.
GenIdCalls(files, n) ==
    Cardinality({k \in 1..n : files[k].view_id = None})

\* main's loop over the view files: data that is None is skipped.
RECURSIVE CliAccumulate(_, _)
CliAccumulate(files, n) ==
    IF n = 0 THEN [all_elements |-> <<>>, all_relationships |-> <<>>, views_data |-> <<>>]
    ELSE LET acc == CliAccumulate(files, n - 1)
             data == Parse(files[n],
                           IF files[n].view_id = None
                           THEN GenId("view", Draw(GenIdCalls(files, n)))
                           ELSE "")
         IN  IF data = None THEN acc
             ELSE [all_elements      |-> CliAddElements(acc.all_elements, data[1].elements, 1),
                   all_relationships |-> AddRelationships(acc.all_relationships,
                                                          data[1].relationships, 1),
                   views_data        |-> Append(acc.views_data, data[1])]

\* The elements the command line writes: the excluded types are skipped here.
CliEmittedElements(all_elements) ==
    SelectSeq(all_elements, LAMBDA elem : elem.type \notin ExcludedTypes)

\* valid_ids of the command line's create_merged_xml
CliValidIds(all_elements, all_relationships, views_data) ==
    Keys(CliEmittedElements(all_elements)) \cup Keys(all_relationships)
        \cup {views_data[j].view_id : j \in 1..Len(views_data)}

\* MODEL_DATA and MODEL_DATA.get('folders') and MODEL_DATA.get('folder_contents')
CliHasFolderData == DOMAIN folders # {} /\ folder_contents # <<>>

\* create_merged_xml of the command line
CliCreateMergedXml(all_elements, all_relationships, views_data, seed, first) ==
    LET valid_ids == CliValidIds(all_elements, all_relationships, views_data)
        orgs == IF CliHasFolderData THEN AddOrganizations(seed, valid_ids)
                ELSE [included |-> {}, roots |-> <<>>, items |-> <<>>, err |-> FALSE]
    IN  [err           |-> orgs.err,
         kind          |-> "merged",
         title         |-> "Data Centric Reference Architecture",
         model_id      |-> GenId("model", Draw(first)),
         node_ids      |-> NodeIds(views_data, first),
         elements      |-> CliEmittedElements(all_elements),
         relationships |-> all_relationships,
         has_orgs      |-> CliHasFolderData,
         included      |-> orgs.included,
         roots         |-> orgs.roots,
         organizations |-> orgs.items,
         diagrams      |-> Diagrams(views_data)]

(***************************************************************************)
(* GUI handlers (ArchiScraperApp).  signal is what the handler that ran    *)
(* last told the user and doc the document it generated, None if it        *)
(* generated none.                                                         *)
(***************************************************************************)

\* self.batch_views.append(view_data); self.batch_list.addItem(item)
AppendToBatch(view_data) ==
    /\ batch_views' = Append(batch_views, view_data)
    /\ batch_list' = Append(batch_list, view_data.view_id)

\* An add without the duplicate check.
NoDuplicateCheck(view_data) == FALSE

\* The duplicate check of _on_iframe_src_received_batch.
IsDuplicate(view_data) ==
    \E j \in 1..Len(batch_views) : batch_views[j].view_id = view_data.view_id

\* _on_iframe_src_received_batch, the iframe showing view_files[i].
AddToBatch(i) ==
    /\ Len(batch_views) < MaxViews
    /\ \E fresh \in GenViewIds :
        LET view_data == Parse(view_files[i], fresh)
        IN  IF view_data = None
            THEN /\ signal' = "NoCoordinates"
                 /\ UNCHANGED <<batch_views, batch_list>>
            ELSE IF IsDuplicate(view_data[1])
            THEN /\ signal' = "AlreadyAdded"
                 /\ UNCHANGED <<batch_views, batch_list>>
            ELSE /\ AppendToBatch(view_data[1])
                 /\ signal' = "Added"
    /\ doc' = None
    /\ uuid_hex' \in FollowingDraws
    /\ UNCHANGED <<registry, hash_seed, view_files, dl, cli>>

\* _on_iframe_src_received_batch without an iframe, or with a failed request.
AddToBatchFails ==
    /\ signal' \in {"NoIframe", "DownloadFailed"}
    /\ doc' = None
    /\ UNCHANGED <<registry, hash_seed, uuid_hex, view_files, batch_views, batch_list, dl, cli>>

RemoveAt(s, row) == SubSeq(s, 1, row - 1) \o SubSeq(s, row + 1, Len(s))

\* _on_remove_selected_clicked, the current item being row `row` of the list.
RemoveSelected(row) ==
    /\ row \in 1..Len(batch_list)
    /\ batch_views' = SelectSeq(batch_views, LAMBDA v : v.view_id # batch_list[row])
    /\ batch_list' = RemoveAt(batch_list, row)
    /\ signal' = "Removed"
    /\ doc' = None
    /\ UNCHANGED <<registry, hash_seed, uuid_hex, view_files, dl, cli>>

\* _on_clear_batch_clicked, confirmed or declined.
ClearBatch(confirmed) ==
    /\ batch_views # <<>>
    /\ IF confirmed
       THEN /\ batch_views' = <<>>
            /\ batch_list' = <<>>
            /\ signal' = "Cleared"
       ELSE /\ UNCHANGED <<batch_views, batch_list>>
            /\ signal' = "ClearDeclined"
    /\ doc' = None
    /\ UNCHANGED <<registry, hash_seed, uuid_hex, view_files, dl, cli>>

\* The body of _on_export_batch_clicked once it goes ahead.
ExportEffect ==
    LET root == GuiCreateMergedXml(batch_views, hash_seed)
    IN  IF root.err
        THEN /\ signal' = "GenerateFailed:RecursionError"
             /\ doc' = None
        ELSE /\ signal' = "Saved"
             /\ doc' = Some(root)

\* _on_export_batch_clicked; without a loaded registry the user is asked
\* whether to continue.
ExportBatch ==
    /\ \E continue_anyway \in BOOLEAN :
        IF batch_views = <<>>
        THEN /\ signal' = "NoViewsInBatch"
             /\ doc' = None
        ELSE IF ~loaded /\ ~continue_anyway
        THEN /\ signal' = "ExportDeclined"
             /\ doc' = None
        ELSE ExportEffect
    /\ uuid_hex' \in FollowingDraws
    /\ UNCHANGED <<registry, hash_seed, view_files, batch_views, batch_list, dl, cli>>

\* _on_iframe_src_received (single download), the iframe showing view_files[i].
ExportSingle(i) ==
    /\ \E fresh \in GenViewIds, continue_anyway \in BOOLEAN :
        LET view_data == Parse(view_files[i], fresh)
        IN  IF ~loaded /\ ~continue_anyway
            THEN /\ signal' = "ExportDeclined"
                 /\ doc' = None
            ELSE IF view_data = None
            THEN /\ signal' = "NoCoordinates"
                 /\ doc' = None
            ELSE LET root == GuiCreateSingleViewXml(
                                 view_data[1], hash_seed,
                                 IF view_files[i].view_id = None THEN 2 ELSE 1)
                 IN  IF root.err
                     THEN /\ signal' = "ConvertFailed:RecursionError"
                          /\ doc' = None
                     ELSE /\ signal' = "Saved"
                          /\ doc' = Some(root)
    /\ uuid_hex' \in FollowingDraws
    /\ UNCHANGED <<registry, hash_seed, view_files, batch_views, batch_list, dl, cli>>

\* _on_download_all_clicked up to the loop: the prerequisites, the question,
\* and the clearing of the batch.
DownloadAllStart(confirmed) ==
    /\ dl = None
    /\ IF ~loaded \/ views = <<>>
       THEN /\ signal' = "NoViewsInModel"
            /\ UNCHANGED <<batch_views, batch_list, dl>>
       ELSE IF ~confirmed
       THEN /\ signal' = "DownloadDeclined"
            /\ UNCHANGED <<batch_views, batch_list, dl>>
       ELSE /\ batch_views' = <<>>
            /\ batch_list' = <<>>
            /\ dl' = Some([view_ids |-> views, i |-> 1,
                           success_count |-> 0, fail_count |-> 0,
                           appended |-> <<>>])
            /\ signal' = "Downloading"
    /\ doc' = None
    /\ UNCHANGED <<registry, hash_seed, uuid_hex, view_files, cli>>

\* One iteration of the loop: the request fails, or it returns view_files[j].
\* appended records the ViewRecords the run has put into the batch so far.
DownloadAllStep(failed, j) ==
    /\ dl # None
    /\ dl[1].i <= Len(dl[1].view_ids)
    /\ \E fresh \in GenViewIds :
        LET view_data == IF failed THEN None ELSE Parse(view_files[j], fresh)
        IN  IF view_data # None
            THEN /\ AppendToBatch(view_data[1])
                 /\ dl' = Some([dl[1] EXCEPT !.i = @ + 1, !.success_count = @ + 1,
                                             !.appended = Append(@, view_data[1])])
            ELSE /\ UNCHANGED <<batch_views, batch_list>>
                 /\ dl' = Some([dl[1] EXCEPT !.i = @ + 1, !.fail_count = @ + 1])
    /\ signal' = "Processing"
    /\ doc' = None
    /\ uuid_hex' \in FollowingDraws
    /\ UNCHANGED <<registry, hash_seed, view_files, cli>>

\* After the loop: the summary, and the export if the user asks for it.
DownloadAllFinish(export_now) ==
    /\ dl # None
    /\ dl[1].i > Len(dl[1].view_ids)
    /\ dl' = None
    /\ IF dl[1].success_count = 0
       THEN /\ signal' = "NothingDownloaded"
            /\ doc' = None
       ELSE IF ~export_now
       THEN /\ signal' = "Downloaded"
            /\ doc' = None
       ELSE IF batch_views = <<>>
       THEN /\ signal' = "NoViewsInBatch"
            /\ doc' = None
       ELSE ExportEffect
    /\ uuid_hex' \in FollowingDraws
    /\ UNCHANGED <<registry, hash_seed, view_files, batch_views, batch_list, cli>>

(***************************************************************************)
(* One run of the command line over view_files.  Each run is a process of  *)
(* its own, with its own hash seed.                                        *)
(***************************************************************************)
CliMain ==
    /\ \E seed \in HashSeeds :
        LET acc == CliAccumulate(view_files, Len(view_files))
            root == CliCreateMergedXml(acc.all_elements, acc.all_relationships,
                                       acc.views_data, seed,
                                       GenIdCalls(view_files, Len(view_files)) + 1)
        IN  cli' = Some([all_elements      |-> acc.all_elements,
                         all_relationships |-> acc.all_relationships,
                         views_data        |-> acc.views_data,
                         status |-> IF acc.views_data = <<>> THEN "NoValidViews"
                                    ELSE IF root.err THEN "RecursionError"
                                    ELSE "Success",
                         doc    |-> IF acc.views_data # <<>> /\ ~root.err
                                    THEN Some(root) ELSE None])
    /\ uuid_hex' \in FollowingDraws
    /\ UNCHANGED <<registry, hash_seed, view_files, batch_views, batch_list,
                   signal, doc, dl>>

(***************************************************************************)
(* Inputs.                                                                 *)
(***************************************************************************)

Box(w, h) == [x |-> 10, y |-> 20, w |-> w, h |-> h]

\* A token of a coords attribute: an integer literal, or something else.
Tok(n) == [ok |-> TRUE, val |-> n]
BadTok == [ok |-> FALSE, val |-> 0]

\* The <area> of an element with the given bounding box.
RectArea(id, box) ==
    [shape  |-> "rect",
     coords |-> <<Tok(box.x), Tok(box.y), Tok(box.x + box.w), Tok(box.y + box.h)>>,
     href   |-> Some(id),
     target |-> ""]

\* The coords attributes of the regions: "10,20,160,75", "30,40,50,45", the
\* first with a fifth number, three numbers, a non-integer second or fifth
\* token, nothing.
CoordLists ==
    [four      |-> <<Tok(10), Tok(20), Tok(160), Tok(75)>>,
     other     |-> <<Tok(30), Tok(40), Tok(50), Tok(45)>>,
     five      |-> <<Tok(10), Tok(20), Tok(160), Tok(75), Tok(7)>>,
     three     |-> <<Tok(10), Tok(20), Tok(160)>>,
     badsecond |-> <<Tok(10), BadTok, Tok(160), Tok(75)>>,
     badfifth  |-> <<Tok(10), Tok(20), Tok(160), Tok(75), BadTok>>,
     empty     |-> <<>>]

RawArea(shape, coords, href, target) ==
    [shape |-> shape, coords |-> coords, href |-> href, target |-> target]

\* A map none of whose regions can be taken: three numbers, a token that is
\* no integer, a jump to another view.
MalformedAreas ==
    <<RawArea("rect", CoordLists.three, Some("e2"), ""),
      RawArea("rect", CoordLists.badsecond, Some("e2"), ""),
      RawArea("rect", CoordLists.four, Some("e2"), "view")>>

\* The map that gives each element of DOMAIN boxes its box, one area each.
RectAreas(boxes) ==
    LET ids == SelectSeq(<<"e1", "e2", "e3">>, LAMBDA e : e \in DOMAIN boxes)
    IN  [k \in 1..Len(ids) |-> RectArea(ids[k], boxes[ids[k]])]
Elem(id, name, type) == [id |-> id, name |-> name, type |-> type]

\* A class of a type link: whether it starts with i18n-elementtype-, and
\* what follows the prefix.
TypeClass(tag) == [prefixed |-> TRUE, tag |-> tag]
OtherClass == [prefixed |-> FALSE, tag |-> <<"i18n">>]

\* A row of the relationships table: the number of its cells, and for each
\* of the first four the link in it if there is one; for the relationship,
\* source and target links the identifier in the href if there is one.
RelRow(cells, rel_link, type_link, source_link, target_link) ==
    [cells |-> cells, rel_link |-> rel_link, type_link |-> type_link,
     source_link |-> source_link, target_link |-> target_link]

\* The row of an association with every link and identifier in place.
Rel(id, name, source, target) ==
    RelRow(4, Some([id |-> Some(id), name |-> name]),
           Some(<<TypeClass(<<"Association", "Relationship">>)>>),
           Some(Some(source)), Some(Some(target)))

\* What a view document may say about e1: nothing, or a row of some type
\* with or without a coordinate region.  e2 always has a row and a region.
E1Variants == {"absent", "large", "small", "nocoord", "unknown", "note", "reference"}

E1Type(variant) ==
    CASE variant = "unknown"   -> "Unknown"
      [] variant = "note"      -> "DiagramModelNote"
      [] variant = "reference" -> "DiagramModelReference"
      [] OTHER                 -> "Capability"

RelVariants == {"none", "one", "twice"}

\* A view document of view vid.  Names carry the view, so that the records of
\* one identifier differ from view to view.
MergeDoc(vid, e1, rels) ==
    [view_id     |-> Some(vid),
     view_name   |-> <<"diagram", vid>>,
     elements    |-> (IF e1 = "absent" THEN <<>>
                      ELSE <<Elem("e1", <<vid, e1>>, E1Type(e1))>>)
                     \o <<Elem("e2", <<vid, "e2">>, "BusinessActor")>>,
     areas       |-> RectAreas(
                        [e \in (IF e1 \in {"absent", "nocoord"} THEN {} ELSE {"e1"})
                             \cup {"e2"} |->
                        IF e = "e2" THEN Box(-2, -3)
                        ELSE IF e1 = "small" THEN Box(-1, 5) ELSE Box(4, 3)]),
     relationships |->
        CASE rels = "none"  -> <<>>
          [] rels = "one"   -> <<Rel("r1", <<vid, "r1">>, "e1", "e2")>>
          [] rels = "twice" -> <<Rel("r1", <<vid, "first">>, "e1", "e2"),
                                 Rel("r1", <<vid, "second">>, "e2", "e1")>>]

\* Every variant of e1 with one relationship row, and every variant of the
\* relationship rows with e1 large.
MergeDocs ==
    {MergeDoc(vid, e1, "one") : vid \in ViewIds, e1 \in E1Variants}
        \cup {MergeDoc(vid, "large", rels) : vid \in ViewIds, rels \in RelVariants}

\* The batch the GUI holds after every document of files was added in turn.
RECURSIVE AddAll(_, _)
AddAll(files, n) ==
    IF n = 0 THEN <<>>
    ELSE LET acc == AddAll(files, n - 1)
             view_data == Parse(files[n], CHOOSE g \in GenViewIds : TRUE)
         IN  IF view_data = None THEN acc
             ELSE IF \E j \in 1..Len(acc) : acc[j].view_id = view_data[1].view_id
             THEN acc
             ELSE Append(acc, view_data[1])

ViewIdsOf(batch) == [j \in 1..Len(batch) |-> batch[j].view_id]

\* With a single folder in the registry no set of folders has two members
\* to order, and one seed stands for all.
DefaultSeed == <<"f1", "f2">>

\* A registry with one ordinary folder holding e1, r1 and v1.
PlainFolders == [f \in {"f1"} |-> "Folder"]
PlainContents ==
    <<[folder_id |-> "f1", content_id |-> "e1", content_type |-> "Capability"],
      [folder_id |-> "f1", content_id |-> "r1", content_type |-> "AssociationRelationship"],
      [folder_id |-> "f1", content_id |-> "v1", content_type |-> "ArchimateDiagramModel"]>>

(***************************************************************************)
(* SpecMerge: the merge and the synthesis over every batch of view         *)
(* documents, by the GUI and by the command line.                          *)
(***************************************************************************)
InitMerge ==
    /\ loaded = TRUE
    /\ folders = PlainFolders
    /\ folder_contents = PlainContents
    /\ views = <<>>
    /\ hash_seed = DefaultSeed
    /\ uuid_hex = DistinctDraws
    /\ view_files \in SeqsUpTo(MergeDocs, 1, MaxViews)
    /\ batch_views = AddAll(view_files, Len(view_files))
    /\ batch_list = ViewIdsOf(batch_views)
    /\ signal = "Added"
    /\ doc = None
    /\ dl = None
    /\ cli = None

NextMerge ==
    \/ ExportBatch
    \/ \E i \in 1..Len(view_files) : ExportSingle(i)
    \/ CliMain

SpecMerge == InitMerge /\ [][NextMerge]_vars

(***************************************************************************)
(* SpecZ: the z-order of one diagram over every placement of three         *)
(* elements, widths and heights of either sign included.                   *)
(***************************************************************************)
ZElemIds == {"e1", "e2", "e3"}

ZBoxes == {Box(2, 3), Box(-2, -3), Box(-1, 4), Box(0, 5), Box(4, 3)}

ZDoc(coordinates) ==
    [view_id     |-> Some("v1"),
     view_name   |-> <<"diagram", "v1">>,
     elements    |-> <<Elem("e1", <<"v1", "e1">>, "Capability"),
                       Elem("e2", <<"v1", "e2">>, "BusinessActor"),
                       Elem("e3", <<"v1", "e3">>, "Capability")>>,
     areas       |-> RectAreas(coordinates),
     relationships |-> <<>>]

InitZ ==
    /\ loaded = TRUE
    /\ folders = PlainFolders
    /\ folder_contents = PlainContents
    /\ views = <<>>
    /\ hash_seed = DefaultSeed
    /\ uuid_hex = DistinctDraws
    /\ \E coordinates \in [ZElemIds -> ZBoxes] : view_files = <<ZDoc(coordinates)>>
    /\ batch_views = AddAll(view_files, Len(view_files))
    /\ batch_list = ViewIdsOf(batch_views)
    /\ signal = "Added"
    /\ doc = None
    /\ dl = None
    /\ cli = None

SpecZ == InitZ /\ [][NextMerge]_vars

(***************************************************************************)
(* SpecOrg: the reference resolver over every small registry.              *)
(***************************************************************************)
FolderTypes == {"Folder", "ArchimateModel"}

\* f1 is a registry folder; f2 may be one, or be known only from edges.
FolderMaps ==
    [{"f1"} -> FolderTypes] \cup [{"f1", "f2"} -> FolderTypes]

\* (content id, content type) of an edge: a sub-folder, a folder whose edge
\* lost its type ('Unknown' is the parser's default), an element, a view.
EdgeContents ==
    {<<"f1", "Folder">>, <<"f2", "Folder">>, <<"f2", "Unknown">>,
     <<"e1", "Capability">>, <<"e2", "Capability">>, <<"v1", "ArchimateDiagramModel">>}

ContentEdges ==
    {[folder_id |-> f, content_id |-> c[1], content_type |-> c[2]] :
        f \in FolderIds, c \in EdgeContents}

\* The one view of the resolver's batch: e1 is kept, e2 is of an excluded type.
OrgDoc ==
    [view_id     |-> Some("v1"),
     view_name   |-> <<"diagram", "v1">>,
     elements    |-> <<Elem("e1", <<"v1", "e1">>, "Capability"),
                       Elem("e2", <<"v1", "e2">>, "Unknown")>>,
     areas       |-> RectAreas([e \in {"e1", "e2"} |-> Box(4, 3)]),
     relationships |-> <<Rel("r1", <<"v1", "r1">>, "e1", "e2")>>]

InitOrg ==
    /\ loaded = TRUE
    /\ folders \in FolderMaps
    /\ folder_contents \in SeqsUpTo(ContentEdges, 1, MaxEdges)
    /\ views = <<>>
    /\ hash_seed \in HashSeeds
    /\ uuid_hex = DistinctDraws
    /\ view_files = <<OrgDoc>>
    /\ batch_views = AddAll(view_files, Len(view_files))
    /\ batch_list = ViewIdsOf(batch_views)
    /\ signal = "Added"
    /\ doc = None
    /\ dl = None
    /\ cli = None

NextOrg ==
    \/ ExportBatch
    \/ CliMain

SpecOrg == InitOrg /\ [][NextOrg]_vars

(***************************************************************************)
(* SpecParse: the coordinate extraction over every image map of a few      *)
(* regions, well-formed or not, as the handlers and the command line see   *)
(* it.                                                                     *)
(***************************************************************************)
\* Longest image map.
MaxAreas == 2

\* The regions of a map: for e1 and e2 a rect with each of the coords
\* attributes; a region that is no rect, a jump to another view, and a
\* region whose href gives no identifier.
RawAreas ==
    {RawArea("rect", CoordLists[c], Some(e), "") :
        c \in DOMAIN CoordLists, e \in ElemIds}
      \cup {RawArea("poly", CoordLists.four, Some("e1"), ""),
            RawArea("rect", CoordLists.four, Some("e1"), "view"),
            RawArea("rect", CoordLists.four, None, "")}

\* The view document v1 with rows for e1 and e2 and the given image map.
ParseDoc(areas) ==
    [view_id     |-> Some("v1"),
     view_name   |-> <<"diagram", "v1">>,
     elements    |-> <<Elem("e1", <<"e1">>, "Capability"),
                       Elem("e2", <<"e2">>, "BusinessActor")>>,
     areas       |-> areas,
     relationships |-> <<>>]

InitParse ==
    /\ loaded = TRUE
    /\ folders = PlainFolders
    /\ folder_contents = PlainContents
    /\ views = <<>>
    /\ hash_seed = DefaultSeed
    /\ uuid_hex = DistinctDraws
    /\ \E areas \in SeqsUpTo(RawAreas, 0, MaxAreas) : view_files = <<ParseDoc(areas)>>
    /\ batch_views = <<>>
    /\ batch_list = <<>>
    /\ signal = "Ready"
    /\ doc = None
    /\ dl = None
    /\ cli = None

NextParse ==
    \/ AddToBatch(1)
    \/ ExportSingle(1)
    \/ CliMain

SpecParse == InitParse /\ [][NextParse]_vars

(***************************************************************************)
(* SpecRel: the relationship extraction over every relationships table of  *)
(* a few rows, and what the generators emit of it.                         *)
(***************************************************************************)
\* Longest relationships table.
MaxRows == 2

\* The class lists of a type link: none, one that is no type class, the
\* tags AggregationRelationship, Aggregation, RelationshipNote,
\* Relationship and the empty tag, and ServingRelationship before
\* FlowRelationship after a class that is no type class.
TypeLinks ==
    {<<>>,
     <<OtherClass>>,
     <<TypeClass(<<"Aggregation", "Relationship">>)>>,
     <<TypeClass(<<"Aggregation">>)>>,
     <<TypeClass(<<"Relationship", "Note">>)>>,
     <<TypeClass(<<"Relationship">>)>>,
     <<TypeClass(<<>>)>>,
     <<OtherClass, TypeClass(<<"Serving", "Relationship">>),
       TypeClass(<<"Flow", "Relationship">>)>>}

\* The rows of a table: r1 from e1 to e2 with each type link, r2 with the
\* aggregation link, and rows that give no relationship (three cells, no
\* type link, a source href without identifier).
RelRows ==
    {RelRow(4, Some([id |-> Some("r1"), name |-> <<"r1">>]), Some(classes),
            Some(Some("e1")), Some(Some("e2"))) : classes \in TypeLinks}
      \cup {RelRow(4, Some([id |-> Some("r2"), name |-> <<"r2">>]),
                   Some(<<TypeClass(<<"Aggregation", "Relationship">>)>>),
                   Some(Some("e2")), Some(Some("e1"))),
            RelRow(3, Some([id |-> Some("r1"), name |-> <<"r1">>]),
                   Some(<<TypeClass(<<"Flow", "Relationship">>)>>),
                   Some(Some("e1")), None),
            RelRow(4, Some([id |-> Some("r1"), name |-> <<"r1">>]), None,
                   Some(Some("e1")), Some(Some("e2"))),
            RelRow(4, Some([id |-> Some("r1"), name |-> <<"r1">>]),
                   Some(<<TypeClass(<<"Flow", "Relationship">>)>>),
                   Some(None), Some(Some("e2")))}

\* The view document v1 placing e1 and e2, with the given table.
RelDoc(rows) ==
    [view_id     |-> Some("v1"),
     view_name   |-> <<"diagram", "v1">>,
     elements    |-> <<Elem("e1", <<"e1">>, "Capability"),
                       Elem("e2", <<"e2">>, "BusinessActor")>>,
     areas       |-> RectAreas([e \in {"e1", "e2"} |-> Box(4, 3)]),
     relationships |-> rows]

InitRel ==
    /\ loaded = TRUE
    /\ folders = PlainFolders
    /\ folder_contents = PlainContents
    /\ views = <<>>
    /\ hash_seed = DefaultSeed
    /\ uuid_hex = DistinctDraws
    /\ \E rows \in SeqsUpTo(RelRows, 0, MaxRows) : view_files = <<RelDoc(rows)>>
    /\ batch_views = <<>>
    /\ batch_list = <<>>
    /\ signal = "Ready"
    /\ doc = None
    /\ dl = None
    /\ cli = None

NextRel ==
    \/ AddToBatch(1)
    \/ ExportBatch
    \/ ExportSingle(1)
    \/ CliMain

SpecRel == InitRel /\ [][NextRel]_vars

(***************************************************************************)
(* SpecIds: the synthesized identifiers over every outcome of the draws,   *)
(* for view documents with and without an identifier in the map name.      *)
(***************************************************************************)
\* A view document placing one element; name is None when the map name gives
\* no identifier.
IdDoc(name) ==
    [view_id     |-> name,
     view_name   |-> <<"diagram", name>>,
     elements    |-> <<Elem("e1", <<"e1">>, "Capability")>>,
     areas       |-> RectAreas([e \in {"e1"} |-> Box(4, 3)]),
     relationships |-> <<>>]

IdDocs == {IdDoc(Some("v1")), IdDoc(Some("v2")), IdDoc(None)}

InitIds ==
    /\ loaded = TRUE
    /\ folders = PlainFolders
    /\ folder_contents = PlainContents
    /\ views = <<>>
    /\ hash_seed = DefaultSeed
    /\ uuid_hex \in IdStreams
    /\ view_files \in SeqsUpTo(IdDocs, 1, MaxViews)
    /\ batch_views = <<>>
    /\ batch_list = <<>>
    /\ signal = "Ready"
    /\ doc = None
    /\ dl = None
    /\ cli = None

NextIds ==
    \/ \E i \in 1..Len(view_files) : AddToBatch(i)
    \/ ExportBatch
    \/ \E i \in 1..Len(view_files) : ExportSingle(i)

SpecIds == InitIds /\ [][NextIds]_vars

(***************************************************************************)
(* SpecScene: the synthesis of whole documents over registries that are    *)
(* not loaded, empty, or hold one content edge, and over views whose boxes *)
(* lie inside one another.                                                 *)
(***************************************************************************)
\* Longest content-edge list of a scene's registry.
MaxSceneEdges == 1

\* e1's box contains e2's.  e2 has a region and an ordinary type, or no
\* region, or the type of a note; r1 runs from e1 to e2.
SceneVariants == {"both", "nocoord", "note"}

SceneDoc(vid, variant) ==
    [view_id     |-> Some(vid),
     view_name   |-> <<"diagram", vid>>,
     elements    |-> <<Elem("e1", <<vid, "e1">>, "Capability"),
                       Elem("e2", <<vid, "e2">>,
                            IF variant = "note" THEN "DiagramModelNote"
                            ELSE "Capability")>>,
     areas       |-> RectAreas([e \in (IF variant = "nocoord" THEN {"e1"}
                                       ELSE {"e1", "e2"}) |->
                                  IF e = "e1" THEN Box(6, 6) ELSE Box(2, 3)]),
     relationships |-> <<Rel("r1", <<vid, "r1">>, "e1", "e2")>>]

SceneDocs ==
    {SceneDoc("v1", variant) : variant \in SceneVariants}
        \cup {SceneDoc("v2", "both")}

\* The content edges of the scene: f1 holds e1, e2 or the folder f2.
SceneEdges ==
    {edge \in ContentEdges :
        /\ edge.folder_id = "f1"
        /\ edge.content_id \in {"e1", "e2", "f2"}
        /\ edge.content_type # "Unknown"}

\* A registry that was never loaded is empty (ModelDataParser.__init__).
InitScene ==
    /\ loaded \in BOOLEAN
    /\ folders \in (IF loaded THEN FolderMaps \cup {<<>>} ELSE {<<>>})
    /\ folder_contents \in (IF loaded THEN SeqsUpTo(SceneEdges, 0, MaxSceneEdges)
                             ELSE {<<>>})
    /\ views = <<>>
    /\ hash_seed = DefaultSeed
    /\ uuid_hex = DistinctDraws
    /\ view_files \in SeqsUpTo(SceneDocs, 1, MaxViews)
    /\ batch_views = AddAll(view_files, Len(view_files))
    /\ batch_list = ViewIdsOf(batch_views)
    /\ signal = "Added"
    /\ doc = None
    /\ dl = None
    /\ cli = None

SpecScene == InitScene /\ [][NextMerge]_vars

(***************************************************************************)
(* Spec: the GUI's batch handlers over the documents the environment       *)
(* supplies.                                                               *)
(***************************************************************************)
\* A document of view vid with a region for e2 (and e1), or with none.
BatchDoc(vid, kind) ==
    IF kind = "empty"
    THEN [MergeDoc(vid, "absent", "none") EXCEPT !.areas = <<>>]
    ELSE IF kind = "malformed"
    THEN [MergeDoc(vid, "absent", "none") EXCEPT !.areas = MalformedAreas]
    ELSE MergeDoc(vid, kind, "one")

BatchDocs ==
    {BatchDoc("v1", kind) : kind \in {"empty", "malformed", "absent", "large"}}
        \cup {BatchDoc("v2", "large")}

RegistryViews == {<<>>, <<"v1">>, <<"v1", "v2">>}

Init ==
    /\ loaded = TRUE
    /\ folders = PlainFolders
    /\ folder_contents = PlainContents
    /\ views \in RegistryViews
    /\ hash_seed = DefaultSeed
    /\ uuid_hex = DistinctDraws
    /\ view_files \in SeqsUpTo(BatchDocs, 1, MaxViews)
    /\ batch_views = <<>>
    /\ batch_list = <<>>
    /\ signal = "None"
    /\ doc = None
    /\ dl = None
    /\ cli = None

Next ==
    \/ \E i \in 1..Len(view_files) : AddToBatch(i)
    \/ AddToBatchFails
    \/ \E row \in 1..Len(batch_list) : RemoveSelected(row)
    \/ \E confirmed \in BOOLEAN : ClearBatch(confirmed)
    \/ ExportBatch
    \/ \E i \in 1..Len(view_files) : ExportSingle(i)
    \/ \E confirmed \in BOOLEAN : DownloadAllStart(confirmed)
    \/ \E failed \in BOOLEAN, j \in 1..Len(view_files) : DownloadAllStep(failed, j)
    \/ \E export_now \in BOOLEAN : DownloadAllFinish(export_now)

Spec == Init /\ [][Next]_vars

(***************************************************************************)
(* Properties.                                                             *)
(***************************************************************************)

\* The documents in existence: the GUI's last one and the command line's.
GuiDocs == IF doc = None THEN {} ELSE {doc[1]}
CliDocs == IF cli = None THEN {} ELSE IF cli[1].doc = None THEN {} ELSE {cli[1].doc[1]}
Docs == GuiDocs \cup CliDocs

\* The identifiers the elements, relationships and views sections emit.
EmittedIds(d) ==
    Keys(d.elements) \cup Keys(d.relationships)
        \cup {d.diagrams[j].identifier : j \in 1..Len(d.diagrams)}

\* The identifierRefs of the organizations section.
OrgRefs(d) == {d.organizations[j].id :
                 j \in {k \in 1..Len(d.organizations) : d.organizations[k].kind = "ref"}}

\* The folders emitted as labelled containers.
OrgContainers(d) == {d.organizations[j].id :
                 j \in {k \in 1..Len(d.organizations) : d.organizations[k].kind = "open"}}

\* C1: every identifierRef of the organizations section, in a document of the
\* GUI or of the command line, is the identifier of an element, a
\* relationship or a view emitted in the same document.
C1_NoDanglingRef == \A d \in Docs : OrgRefs(d) \subseteq EmittedIds(d)

\* C1 witness: a document of the command line whose organizations tree has a
\* leaf item under a container that also has an edge to e2, which is not
\* emitted.
C1_Witness ==
    \E d \in CliDocs :
        /\ OrgRefs(d) # {}
        /\ "e2" \notin EmittedIds(d)
        /\ \E j \in 1..Len(folder_contents) :
              /\ folder_contents[j].content_id = "e2"
              /\ folder_contents[j].folder_id \in OrgContainers(d)

\* C2: for every content-edge list, cyclic ones included, the resolver pass
\* ends with an organizations tree: no export is left by RecursionError.
C2_ResolverTerminates ==
    /\ signal # "GenerateFailed:RecursionError"
    /\ cli # None => cli[1].status # "RecursionError"

\* C3: with the registry and the batch unchanged, a second merge yields the
\* same document as the first, in the GUI and on the command line.
C3_Deterministic ==
    [][/\ (doc # None /\ doc' # None) => doc' = doc
       /\ (cli # None /\ cli' # None) => cli'[1].doc = cli[1].doc]_vars

\* Pairwise distinct view identifiers in a list of ViewRecords.
DistinctViewIds(batch) ==
    \A i, j \in 1..Len(batch) : i # j => batch[i].view_id # batch[j].view_id

\* C4: no two ViewRecords of the batch (GUI) or of views_data (command line)
\* share a view identifier, and no document has two diagrams with one
\* identifier.
C4_UniqueViewIds ==
    /\ DistinctViewIds(batch_views)
    /\ cli # None => DistinctViewIds(cli[1].views_data)
    /\ \A d \in Docs : \A i, j \in 1..Len(d.diagrams) :
          i # j => d.diagrams[i].identifier # d.diagrams[j].identifier

\* C5: an add of a view whose identifier is already in the batch is answered
\* with the "already added" message and changes neither batch_views nor the
\* batch list.
C5_DuplicateRejected ==
    [][\A i \in 1..Len(view_files) :
        (/\ AddToBatch(i)
         /\ view_files[i].view_id # None
         /\ \E k \in 1..Len(view_files[i].areas) : IsExtracted(view_files[i].areas[k])
         /\ \E j \in 1..Len(batch_views) :
               batch_views[j].view_id = view_files[i].view_id[1])
        => (/\ signal' = "AlreadyAdded"
            /\ batch_views' = batch_views
            /\ batch_list' = batch_list)]_vars

\* C5 witness: a duplicate has just been refused, the batch holding a view.
C5_Witness == signal = "AlreadyAdded" /\ Len(batch_views) = 1 /\ Len(batch_list) = 1

\* C6: no element of a merged collection and no emitted element entry is of
\* an excluded pseudo-type.
C6_NoExcludedTypes ==
    /\ \A d \in Docs : \A j \in 1..Len(d.elements) :
          d.elements[j].type \notin ExcludedTypes
    /\ cli # None => \A j \in 1..Len(cli[1].all_elements) :
          cli[1].all_elements[j].type \notin ExcludedTypes

\* Whether a row of a view's elements table has a coordinate entry in that
\* view and a type that is not excluded.
Eligible(view_data, elem) ==
    /\ elem.id \in DOMAIN view_data.coordinates
    /\ elem.type \notin {"DiagramModelNote", "DiagramModelReference", "Unknown"}

\* The element rows of a batch in batch order: all of them, or the eligible ones.
RECURSIVE ElementRows(_, _, _)
ElementRows(batch, n, only_eligible) ==
    IF n = 0 THEN <<>>
    ELSE ElementRows(batch, n - 1, only_eligible)
            \o SelectSeq(batch[n].elements,
                         LAMBDA elem : ~only_eligible \/ Eligible(batch[n], elem))

\* The relationship rows of a batch in batch order.
RECURSIVE RelationshipRows(_, _)
RelationshipRows(batch, n) ==
    IF n = 0 THEN <<>>
    ELSE RelationshipRows(batch, n - 1) \o batch[n].relationships

\* The first row of an identifier.
FirstRow(rows, id) ==
    rows[CHOOSE i \in 1..Len(rows) :
            /\ rows[i].id = id
            /\ \A j \in 1..(i - 1) : rows[j].id # id]

\* A dict holds exactly the identifiers of the rows, each once, each with
\* the record of its first row.
FirstWins(dict, rows) ==
    /\ Keys(dict) = Keys(rows)
    /\ \A i, j \in 1..Len(dict) : i # j => dict[i].id # dict[j].id
    /\ \A i \in 1..Len(dict) : dict[i] = FirstRow(rows, dict[i].id)

NoDuplicateIds(dict) ==
    \A i, j \in 1..Len(dict) : i # j => dict[i].id # dict[j].id

MergedGuiDocs == {d \in GuiDocs : d.kind = "merged"}

ContributedWithCoordinates(batch, elem) ==
    \E j \in 1..Len(batch) :
        /\ elem \in Range(batch[j].elements)
        /\ elem.id \in DOMAIN batch[j].coordinates

\* C8: every element of a merged collection, and so every emitted element,
\* comes from a view that has a coordinate entry for it, in the GUI and on
\* the command line.
C8_OnlyWithCoordinates ==
    /\ \A d \in MergedGuiDocs : \A k \in 1..Len(d.elements) :
          ContributedWithCoordinates(batch_views, d.elements[k])
    /\ cli # None => \A k \in 1..Len(cli[1].all_elements) :
          ContributedWithCoordinates(cli[1].views_data, cli[1].all_elements[k])
    /\ \A d \in CliDocs : \A k \in 1..Len(d.elements) :
          ContributedWithCoordinates(cli[1].views_data, d.elements[k])

\* C9: in every diagram, a node of larger area (w * h) comes before every
\* node of smaller area.
C9_ZOrder ==
    \A d \in Docs : \A v \in 1..Len(d.diagrams) :
        LET nodes == d.diagrams[v].nodes
        IN  \A a, b \in 1..Len(nodes) :
                nodes[a].w * nodes[a].h > nodes[b].w * nodes[b].h => a < b

\* C9 witness: a diagram of three nodes of three different areas, led by the
\* last element of the table, whose width and height are negative.
C9_Witness ==
    \E d \in GuiDocs : \E v \in 1..Len(d.diagrams) :
        LET nodes == d.diagrams[v].nodes
        IN  /\ Len(nodes) = 3
            /\ nodes[1].elementRef = "e3"
            /\ nodes[1].w < 0 /\ nodes[1].h < 0
            /\ nodes[1].w * nodes[1].h > nodes[2].w * nodes[2].h
            /\ nodes[2].w * nodes[2].h > nodes[3].w * nodes[3].h
            /\ nodes[3].elementRef = "e1"

\* The folders from which a content-edge path leads to a member of ids, its
\* inner targets being folders by content type or by identifier.
RECURSIVE ContainingFolders(_)
ContainingFolders(reached) ==
    LET more == {folder_contents[j].folder_id :
                    j \in {k \in 1..Len(folder_contents) :
                            /\ folder_contents[k].content_id \in reached
                            /\ \/ folder_contents[k].content_type = "Folder"
                               \/ folder_contents[k].content_id \in DOMAIN folders}}
    IN  IF more \subseteq reached THEN reached ELSE ContainingFolders(reached \cup more)

FoldersWithContent(ids) ==
    LET direct == {folder_contents[j].folder_id :
                    j \in {k \in 1..Len(folder_contents) :
                            folder_contents[k].content_id \in ids}}
    IN  ContainingFolders(direct)

\* C10: every folder of the included set, as emitted or as computed for the
\* batch at hand under any hash seed, transitively contains an identifier
\* that is emitted.
C10_IncludedHaveContent ==
    /\ \A d \in Docs :
          (d.included \cup OrgContainers(d)) \subseteq FoldersWithContent(EmittedIds(d))
    /\ HasFolderData => \A seed \in HashSeeds :
          LET all_elements == GuiMergeElements(batch_views, Len(batch_views))
              all_relationships == MergeRelationships(batch_views, Len(batch_views))
              ids == Keys(all_elements) \cup Keys(all_relationships)
                        \cup {batch_views[j].view_id : j \in 1..Len(batch_views)}
          IN  IncludedFolders(seed, ids) \subseteq FoldersWithContent(ids)

\* C10 witness: two folders are emitted, one of which holds no emitted
\* identifier itself, only through its sub-folder, beside an edge to e2,
\* which is not emitted.
C10_Witness ==
    \E d \in GuiDocs :
        /\ Cardinality(OrgContainers(d)) = 2
        /\ \E f \in OrgContainers(d) :
              /\ \A j \in 1..Len(folder_contents) :
                    folder_contents[j].folder_id = f
                        => folder_contents[j].content_id \notin EmittedIds(d)
              /\ \E j \in 1..Len(folder_contents) :
                    /\ folder_contents[j].folder_id = f
                    /\ folder_contents[j].content_id = "e2"

\* The registry of the scenario: one ordinary folder f1, without a parent
\* edge, whose only content edge points to e1.
SceneRegistry ==
    /\ loaded
    /\ folders = [f \in {"f1"} |-> "Folder"]
    /\ folder_contents =
          <<[folder_id |-> "f1", content_id |-> "e1", content_type |-> "Capability"]>>

\* The one view of the scenario has regions for e1 and e2, both Capability.
SceneView == \E vid \in ViewIds : view_files = <<SceneDoc(vid, "both")>>

\* C11: with folder f1 holding e1 only and one view that places e1 and e2,
\* every document has the elements e1 and e2 and an organizations section
\* made of f1 with the one leaf e1; e2 is nowhere in it.
C11_FolderScenario ==
    (SceneRegistry /\ SceneView) =>
        \A d \in Docs :
            /\ Keys(d.elements) = {"e1", "e2"}
            /\ d.has_orgs
            /\ d.organizations = <<OpenItem("f1"), RefItem("e1"), CloseItem("f1")>>

\* C11 witness: the scenario, exported by the GUI and by the command line.
C11_Witness ==
    /\ SceneRegistry /\ SceneView
    /\ MergedGuiDocs # {}
    /\ CliDocs # {}

\* C12: every relationship emitted in a document has a source and a target
\* that are identifiers of an element or a relationship of the same document.
C12_EndpointsResolve ==
    \A d \in Docs : \A j \in 1..Len(d.relationships) :
        /\ d.relationships[j].source \in Keys(d.elements) \cup Keys(d.relationships)
        /\ d.relationships[j].target \in Keys(d.elements) \cup Keys(d.relationships)

\* A region of the image map that can be taken: a rect that is no jump to
\* another view, whose reference gives an identifier and whose numbers are
\* at least four integers.
WellFormedRegion(area) ==
    /\ area.shape = "rect"
    /\ area.target # "view"
    /\ area.href # None
    /\ Len(area.coords) >= 4
    /\ \A k \in 1..Len(area.coords) : area.coords[k].ok

NoRenderableContent(view_doc) ==
    \A k \in 1..Len(view_doc.areas) : ~WellFormedRegion(view_doc.areas[k])

\* C13: parse gives a ViewRecord exactly for the documents with a region
\* that can be taken; for the others the add, the single download and the
\* download-all step each report it, skip the view and leave batch_views and
\* the batch list as they were.
C13_NoRenderableContent ==
    [][\A i \in 1..Len(view_files) :
        /\ \A fresh \in GenViewIds :
              Parse(view_files[i], fresh) = None <=> NoRenderableContent(view_files[i])
        /\ NoRenderableContent(view_files[i]) =>
              /\ AddToBatch(i) =>
                    /\ signal' = "NoCoordinates"
                    /\ batch_views' = batch_views /\ batch_list' = batch_list
              /\ ExportSingle(i) =>
                    /\ signal' = "NoCoordinates" /\ doc' = None
                    /\ batch_views' = batch_views /\ batch_list' = batch_list
              /\ DownloadAllStep(FALSE, i) =>
                    /\ dl'[1].fail_count = dl[1].fail_count + 1
                    /\ dl'[1].success_count = dl[1].success_count
                    /\ batch_views' = batch_views /\ batch_list' = batch_list]_vars

\* C13 witness: the batch holds a view and a document whose regions are all
\* malformed was just refused.
C13_Witness ==
    /\ signal = "NoCoordinates"
    /\ dl = None
    /\ batch_views # <<>>
    /\ \E i \in 1..Len(view_files) :
          view_files[i].areas # <<>> /\ NoRenderableContent(view_files[i])

\* C14: when a download-all run ends, every registry view was counted as a
\* success or as a failure, and the batch holds exactly the ViewRecords the
\* run retrieved and parsed, in the order of the run.
C14_DownloadAllCompletes ==
    [][\A export_now \in BOOLEAN :
        DownloadAllFinish(export_now) =>
            /\ dl[1].success_count + dl[1].fail_count = Len(dl[1].view_ids)
            /\ Len(dl[1].appended) = dl[1].success_count
            /\ batch_views = dl[1].appended
            /\ batch_list = ViewIdsOf(dl[1].appended)]_vars

\* C15: while a download-all run is in progress, every step that is not a
\* step of the run leaves batch_views and the batch list as they are and
\* exports nothing.
C15_SingleWriter ==
    [][(dl # None /\ dl' = dl) =>
            /\ batch_views' = batch_views
            /\ batch_list' = batch_list
            /\ doc' = None]_vars

\* C16: a document has an organizations section exactly when the registry
\* was loaded and has a folder and a content edge; without the section no
\* organizations item is emitted.  Single-view, merged and command line.
C16_OrganizationsGuard ==
    \A d \in Docs :
        /\ d.has_orgs <=> (loaded /\ DOMAIN folders # {} /\ folder_contents # <<>>)
        /\ ~d.has_orgs => d.organizations = <<>>

\* C16 witness: the registry is loaded and has a folder but no content edge,
\* and a single-view document and a command line document were written
\* without the section.
C16_Witness ==
    /\ loaded /\ DOMAIN folders # {} /\ folder_contents = <<>>
    /\ \E d \in GuiDocs : d.kind = "single" /\ ~d.has_orgs
    /\ \E d \in CliDocs : ~d.has_orgs

\* C17: a step that writes a merged document leaves batch_views and the
\* batch list as they were, and the document has one diagram per ViewRecord
\* of the batch, in batch order, with that record's identifier and name.
C17_BatchPreserved ==
    [][(doc' # None /\ doc'[1].kind = "merged") =>
            /\ batch_views' = batch_views
            /\ batch_list' = batch_list
            /\ Len(doc'[1].diagrams) = Len(batch_views)
            /\ \A j \in 1..Len(batch_views) :
                  /\ doc'[1].diagrams[j].identifier = batch_views[j].view_id
                  /\ doc'[1].diagrams[j].name = batch_views[j].view_name]_vars

\* C17 witness: a merged document of a batch of two different views.
C17_Witness ==
    \E d \in MergedGuiDocs :
        /\ Len(batch_views) = 2
        /\ batch_views[1].view_id # batch_views[2].view_id
        /\ Len(d.diagrams) = 2
        /\ d.diagrams[1].identifier = batch_views[1].view_id

\* The diagram of a ViewRecord: one node for each element of the view that
\* has a region and a type that is not excluded, at the x, y, w, h of its
\* box, each a direct child of the diagram, and no connection.
DiagramOf(diagram, view_data) ==
    LET placed == {view_data.elements[k].id :
                     k \in {i \in 1..Len(view_data.elements) :
                              Eligible(view_data, view_data.elements[i])}}
    IN  /\ {diagram.nodes[j].elementRef : j \in 1..Len(diagram.nodes)} = placed
        /\ Len(diagram.nodes) = Cardinality(placed)
        /\ \A j \in 1..Len(diagram.nodes) :
              LET node == diagram.nodes[j]
                  box == view_data.coordinates[node.elementRef]
              IN  /\ node.x = box.x /\ node.y = box.y
                  /\ node.w = box.w /\ node.h = box.h
                  /\ node.parent = diagram.identifier
        /\ diagram.connections = <<>>

RECURSIVE NodeIdList(_, _)
NodeIdList(node_ids, n) ==
    IF n = 0 THEN <<>> ELSE NodeIdList(node_ids, n - 1) \o node_ids[n]

GenIdsOf(d) == <<d.model_id>> \o NodeIdList(d.node_ids, Len(d.node_ids))

\* The source identifiers document d reuses.
SourceIdsOf(d) ==
    Keys(d.elements) \cup Keys(d.relationships)
        \cup {d.diagrams[j].identifier : j \in 1..Len(d.diagrams)}

PairwiseDistinct(s) == \A i, j \in 1..Len(s) : i # j => s[i] # s[j]

\* C19: the identifiers gen_id makes for one document (the model identifier
\* and every node identifier) are pairwise distinct and none of them is an
\* identifier the document reuses from the source; and a view whose map name
\* gives no identifier gets one that no view of the batch has, so that adding
\* it is never refused as already added.
C19_FreshIdentifiers ==
    /\ [](\A d \in Docs : /\ PairwiseDistinct(GenIdsOf(d))
                           /\ \A k \in 1..Len(GenIdsOf(d)) :
                                 GenIdsOf(d)[k] \notin SourceIdsOf(d))
    /\ [][\A i \in 1..Len(view_files) :
            (AddToBatch(i) /\ view_files[i].view_id = None)
                => signal' # "AlreadyAdded"]_vars

(***************************************************************************)
(* Coordinate extraction.                                                  *)
(***************************************************************************)
\* The last region of the map that can be taken and refers to element e.
LastRegionOf(areas, e) ==
    areas[CHOOSE k \in 1..Len(areas) :
            /\ WellFormedRegion(areas[k]) /\ areas[k].href[1] = e
            /\ \A m \in (k + 1)..Len(areas) :
                  ~(WellFormedRegion(areas[m]) /\ areas[m].href[1] = e)]

\* What the claim says of the map: an entry for the element of every region
\* that can be taken and for no other, with x = x1, y = y1, w = x2 - x1 and
\* h = y2 - y1 of its region.
ExpectedCoordinates(areas) ==
    [e \in {areas[k].href[1] : k \in {m \in 1..Len(areas) : WellFormedRegion(areas[m])}} |->
        LET c == LastRegionOf(areas, e).coords
        IN  [x |-> c[1].val, y |-> c[2].val,
             w |-> c[3].val - c[1].val, h |-> c[4].val - c[2].val]]

\* The ViewRecords the handlers and the command line hold of view_files[1].
ParsedRecords ==
    {batch_views[j] : j \in 1..Len(batch_views)}
        \cup (IF cli = None THEN {}
              ELSE {cli[1].views_data[j] : j \in 1..Len(cli[1].views_data)})

\* C20: extract_coordinates gives the element of every rect region
\* x1,y1,x2,y2 the box x = x1, y = y1, w = x2 - x1, h = y2 - y1; a region
\* with a token that is no integer or with fewer than four numbers, a jump to
\* another view and a region without identifier are skipped, and the other
\* regions of the map are extracted all the same.
C20_BoundingBoxes ==
    /\ \A i \in 1..Len(view_files) :
          ExtractCoordinates(view_files[i].areas, Len(view_files[i].areas))
              = ExpectedCoordinates(view_files[i].areas)
    /\ \A view_data \in ParsedRecords :
          view_data.coordinates = ExpectedCoordinates(view_files[1].areas)

\* C20 witness: a map with a region that is skipped and the region
\* "10,20,160,75" of e1 was parsed into the batch, e1 at 10,20 with width 150
\* and height 55.
C20_Witness ==
    /\ \E k \in 1..Len(view_files[1].areas) : ~WellFormedRegion(view_files[1].areas[k])
    /\ \E k \in 1..Len(view_files[1].areas) :
          view_files[1].areas[k] = RawArea("rect", CoordLists.four, Some("e1"), "")
    /\ batch_views # <<>>
    /\ batch_views[1].coordinates = [e \in {"e1"} |-> [x |-> 10, y |-> 20, w |-> 150, h |-> 55]]

(***************************************************************************)
(* Relationship types.                                                     *)
(***************************************************************************)
\* What the claim says of a type link: the tag of its first type class,
\* without a trailing "Relationship", and "Association" without a type class.
ExpectedType(classes) ==
    LET typed == {k \in 1..Len(classes) : classes[k].prefixed}
    IN  IF typed = {} THEN <<"Association">>
        ELSE LET tag == classes[CHOOSE k \in typed : \A m \in typed : k <= m].tag
             IN  IF tag # <<>> /\ tag[Len(tag)] = "Relationship"
                 THEN [k \in 1..(Len(tag) - 1) |-> tag[k]]
                 ELSE tag

\* The rows of the table of view_files[1] that give a relationship.
GoodRows ==
    SelectSeq(view_files[1].relationships,
              LAMBDA row : /\ row.cells >= 4
                           /\ row.rel_link # None /\ row.type_link # None
                           /\ row.source_link # None /\ row.target_link # None
                           /\ row.rel_link[1].id # None
                           /\ row.source_link[1] # None /\ row.target_link[1] # None)

\* C21: the relationships taken from a table have, row by row, the type the
\* type link's tag gives once a trailing "Relationship" is stripped, the tag
\* itself without that suffix, and "Association" without a type tag; and a
\* relationship emitted in a document has the type of a row of its
\* identifier.
C21_RelationshipTypes ==
    /\ \A view_data \in ParsedRecords :
          /\ Len(view_data.relationships) = Len(GoodRows)
          /\ \A j \in 1..Len(GoodRows) :
                /\ view_data.relationships[j].id = GoodRows[j].rel_link[1].id[1]
                /\ view_data.relationships[j].type = ExpectedType(GoodRows[j].type_link[1])
    /\ \A d \in Docs : \A j \in 1..Len(d.relationships) :
          \E k \in 1..Len(GoodRows) :
              /\ GoodRows[k].rel_link[1].id[1] = d.relationships[j].id
              /\ d.relationships[j].type = ExpectedType(GoodRows[k].type_link[1])

\* C21 witness: a row tagged AggregationRelationship and a row whose type
\* link has no type class were exported as Aggregation and Association.
C21_Witness ==
    /\ Len(GoodRows) = 2
    /\ GoodRows[1].type_link[1] = <<TypeClass(<<"Aggregation", "Relationship">>)>>
    /\ GoodRows[2].type_link[1] = <<OtherClass>>
    /\ \E d \in MergedGuiDocs :
          /\ Len(d.relationships) = 2
          /\ d.relationships[1].type = <<"Aggregation">>
          /\ d.relationships[2].type = <<"Association">>

(***************************************************************************)
(* The reachability scan.                                                  *)
(***************************************************************************)
\* The sets valid_ids can be: any identifiers of elements, relationships
\* and views.
ValidIdSets == SUBSET (ElemIds \cup RelIds \cup {"v1"})

\* C22: for every registry folder f and every set of valid identifiers, the
\* top-level call folder_has_valid_content(f) returns, has entered no
\* folder twice, and is true exactly when a content-edge path from f
\* through folders leads to a valid identifier.
C22_ScanIsReachability ==
    \A f \in DOMAIN folders : \A ids \in ValidIdSets :
        LET r == FolderHasValidContent(f, <<>>, ids)
        IN  /\ PairwiseDistinct(r.visited)
            /\ r.res <=> f \in FoldersWithContent(ids)

\* C22 witness: f1 and f2 hold one another, f2 is scanned from f1 and comes
\* back to f1 before the scan finds e1 behind the cycle, and the document
\* was written with both folders included.
C22_Witness ==
    /\ \E i, j \in 1..Len(folder_contents) :
          /\ i < j
          /\ folder_contents[i].folder_id = "f1" /\ folder_contents[i].content_id = "f2"
          /\ folder_contents[j].folder_id = "f1" /\ folder_contents[j].content_id = "e1"
    /\ \E k \in 1..Len(folder_contents) :
          folder_contents[k].folder_id = "f2" /\ folder_contents[k].content_id = "f1"
    /\ "f2" \in DOMAIN folders
    /\ FolderHasValidContent("f1", <<>>, {"e1"}) = [res |-> TRUE, visited |-> <<"f1", "f2">>]
    /\ \E d \in MergedGuiDocs : d.included = {"f1", "f2"}

(***************************************************************************)
(* The organizations tree.                                                 *)
(***************************************************************************)
\* The included registry folders of type Folder.
OrdinaryIncluded(d) ==
    {f \in d.included : f \in DOMAIN folders /\ folders[f] = "Folder"}

\* C23: in a document with an organizations section every included registry
\* folder of type Folder is a top-level root or has a parent that is
\* included and emitted; it is emitted as a labelled container, and each of
\* its content edges to an emitted identifier has its leaf item.
C23_ConnectedToRoot ==
    \A d \in Docs : d.has_orgs =>
        \A f \in OrdinaryIncluded(d) :
            /\ \/ f \in Range(d.roots)
               \/ /\ GetParentFolder(f) # None
                  /\ GetParentFolder(f)[1] \in d.included \cap OrgContainers(d)
            /\ f \in OrgContainers(d)
            /\ \A k \in 1..Len(folder_contents) :
                  (/\ folder_contents[k].folder_id = f
                   /\ folder_contents[k].content_id \in EmittedIds(d))
                      => folder_contents[k].content_id \in OrgRefs(d)

\* Whether the claim's root rule takes folder f: no Folder-typed content
\* edge points to it, or its parent is of type ArchimateModel.
ParentlessOrUnderModel(f) ==
    \/ \A k \in 1..Len(folder_contents) :
          ~(folder_contents[k].content_id = f /\ folder_contents[k].content_type = "Folder")
    \/ /\ GetParentFolder(f) # None
       /\ GetParentFolder(f)[1] \in DOMAIN folders
       /\ folders[GetParentFolder(f)[1]] = "ArchimateModel"

\* C24: in a document with an organizations section an included folder is a
\* top-level root exactly when it has no parent edge or its parent is of
\* type ArchimateModel, whatever its own type.
C24_RootSelection ==
    \A d \in Docs : d.has_orgs =>
        \A f \in d.included :
            f \in Range(d.roots) <=> ParentlessOrUnderModel(f)

\* Whether the parent chain from folder f comes back to a folder it has
\* passed, after at most n steps.
RECURSIVE ParentChainCloses(_, _, _)
ParentChainCloses(f, passed, n) ==
    IF n = 0 \/ GetParentFolder(f) = None THEN FALSE
    ELSE IF GetParentFolder(f)[1] \in passed \cup {f} THEN TRUE
    ELSE ParentChainCloses(GetParentFolder(f)[1], passed \cup {f}, n - 1)

\* C25: for every edge list and every order of the scanned set the
\* ancestor closure ends, and what it adds to the scanned set is no registry
\* folder: a registry folder that is the parent of an included folder was
\* included by the scan.
C25_ClosureAddsNoKnownFolder ==
    \A seed \in HashSeeds : \A ids \in ValidIdSets :
        (IncludedFolders(seed, ids) \ ScannedFolders(ids)) \cap DOMAIN folders = {}

\* C25 witness: the closure went round a parent chain that comes back to
\* its start, added a folder that is not in the registry, and the document
\* was written.
C25_Witness ==
    /\ \E f \in DOMAIN folders : ParentChainCloses(f, {}, Cardinality(FolderIds))
    /\ \E d \in MergedGuiDocs :
          /\ d.included \ DOMAIN folders # {}
          /\ d.included \cap DOMAIN folders # {}

\* The number of items of the given kind and identifier in document d.
ItemCount(d, kind, id) ==
    Cardinality({j \in 1..Len(d.organizations) :
                    d.organizations[j].kind = kind /\ d.organizations[j].id = id})

\* C26: in the organizations tree no folder is a labelled container twice,
\* and an identifier has at most as many leaf items as there are content
\* edges pointing to it.
C26_EmittedOnce ==
    \A d \in Docs :
        /\ \A f \in FolderIds : ItemCount(d, "open", f) <= 1
        /\ \A x \in EmittedIds(d) :
              ItemCount(d, "ref", x)
                  <= Cardinality({k \in 1..Len(folder_contents) :
                                    folder_contents[k].content_id = x})

(***************************************************************************)
(* Node references.                                                        *)
(***************************************************************************)
\* C27: in every document, single-view, merged or of the command line, the
\* elementRef of every node is the identifier of an element of the elements
\* section of the same document.
C27_NodesReferToElements ==
    \A d \in Docs : \A v \in 1..Len(d.diagrams) :
        \A j \in 1..Len(d.diagrams[v].nodes) :
            d.diagrams[v].nodes[j].elementRef \in Keys(d.elements)

(***************************************************************************)
(* The batch and its panel.                                                *)
(***************************************************************************)
\* C28: the batch list and batch_views hold the same view identifiers in the
\* same order, and a remove-selected takes exactly one entry from each.
C28_ListMirrorsBatch ==
    /\ [](batch_list = ViewIdsOf(batch_views))
    /\ [][\A row \in 1..Len(batch_list) :
            RemoveSelected(row) =>
                /\ Len(batch_views') = Len(batch_views) - 1
                /\ Len(batch_list') = Len(batch_list) - 1]_vars

(***************************************************************************)
(* Single-view and merged generator.                                       *)
(***************************************************************************)
\* C29: a single-view document written for the ViewRecord v of a view file
\* has the same elements, the same relationships (every field), the same
\* organizations tree and the same diagram with the same nodes as
\* create_merged_xml([v]).
C29_SingleEqualsMergedOfOne ==
    \A single \in GuiDocs : \A i \in 1..Len(view_files) : \A fresh \in GenViewIds :
        LET v == Parse(view_files[i], fresh)
        IN  (/\ single.kind = "single"
             /\ v # None
             /\ single = GuiCreateSingleViewXml(v[1], hash_seed, 1))
            => LET merged == GuiCreateMergedXml(<<v[1]>>, hash_seed)
               IN  /\ single.elements = merged.elements
                   /\ single.relationships = merged.relationships
                   /\ single.has_orgs = merged.has_orgs
                   /\ single.organizations = merged.organizations
                   /\ single.diagrams = merged.diagrams

\* C30: a confirmed download-all with its prerequisites met empties
\* batch_views and the batch list before the first retrieval; declining it,
\* or a registry that is not loaded or has no view, leaves the batch as it
\* is; when the run ends the batch holds only ViewRecords the run retrieved,
\* and if every retrieval failed the batch is empty and no export is offered.
C30_DownloadAllReplacesBatch ==
    [][/\ \A confirmed \in BOOLEAN :
            DownloadAllStart(confirmed) =>
                IF loaded /\ views # <<>> /\ confirmed
                THEN batch_views' = <<>> /\ batch_list' = <<>>
                ELSE batch_views' = batch_views /\ batch_list' = batch_list
       /\ \A export_now \in BOOLEAN :
            DownloadAllFinish(export_now) =>
                /\ \A j \in 1..Len(batch_views) :
                        batch_views[j] \in Range(dl[1].appended)
                /\ dl[1].success_count = 0 =>
                        /\ batch_views = <<>>
                        /\ batch_list = <<>>
                        /\ signal' = "NothingDownloaded"
                        /\ doc' = None]_vars

====
